---- MODULE Spec2Model ----
(***************************************************************************)
(* Model of the incremental UTF-8 decoder of src/lib.rs: the width table,  *)
(* the prefix validators, decode_step, IncompleteSequence::complete and    *)
(* StrChar, driven by a caller that feeds byte chunks, resumes after every *)
(* Error at the reported remainder and completes pending sequences with    *)
(* the next chunk.  Bytes are integers 0..255; a slice is a sequence of    *)
(* bytes; Rust's 0-based positions are kept and translated on access.      *)
(***************************************************************************)
EXTENDS Integers, Sequences, FiniteSets, TLC

(* ------------------------------ bounds --------------------------------- *)

\* Total number of bytes the driver hands to the decoder in one run.
MaxStream == 4

\* Number of chunks a stream is cut into at most, empty chunks included.
MaxChunks == 4

\* A byte of each class the validators tell apart: ASCII, the continuation
\* sub-ranges 80..8F / 90..9F / A0..BF, the invalid leads C0 and FF, a 2-byte
\* lead, and the leads with a narrowed second byte: E0, ED, F0, F4.
Bytes == {97, 128, 144, 160, 192, 195, 224, 237, 240, 244, 255}

\* The slices of at most n bytes.
Slices(n) == UNION {[1..k -> Bytes] : k \in 0..n}

(* --------------------- width table and validators ---------------------- *)

UTF8_CHAR_WIDTH ==
  << 1,1,1,1,1,1,1,1,1,1,1,1,1,1,1,1,
     1,1,1,1,1,1,1,1,1,1,1,1,1,1,1,1,
     1,1,1,1,1,1,1,1,1,1,1,1,1,1,1,1,
     1,1,1,1,1,1,1,1,1,1,1,1,1,1,1,1,
     1,1,1,1,1,1,1,1,1,1,1,1,1,1,1,1,
     1,1,1,1,1,1,1,1,1,1,1,1,1,1,1,1,
     1,1,1,1,1,1,1,1,1,1,1,1,1,1,1,1,
     1,1,1,1,1,1,1,1,1,1,1,1,1,1,1,1,
     0,0,0,0,0,0,0,0,0,0,0,0,0,0,0,0,
     0,0,0,0,0,0,0,0,0,0,0,0,0,0,0,0,
     0,0,0,0,0,0,0,0,0,0,0,0,0,0,0,0,
     0,0,0,0,0,0,0,0,0,0,0,0,0,0,0,0,
     0,0,2,2,2,2,2,2,2,2,2,2,2,2,2,2,
     2,2,2,2,2,2,2,2,2,2,2,2,2,2,2,2,
     3,3,3,3,3,3,3,3,3,3,3,3,3,3,3,3,
     4,4,4,4,4,0,0,0,0,0,0,0,0,0,0,0 >>

\* Variant: C0 and C1 are taken for 2-byte leads, as the bit pattern 110xxxxx
\* alone suggests.
width_c0_two(first_byte) ==
  IF first_byte \in 192..193 THEN 2 ELSE UTF8_CHAR_WIDTH[first_byte + 1]

\* fn width(first_byte: u8) -> u8; the table is indexed from 0 in the source.
width(first_byte) == UTF8_CHAR_WIDTH[first_byte + 1]

\* Bitwise AND of two bytes, bit by bit over n bits.
RECURSIVE BitAnd(_, _, _)
BitAnd(a, b, n) ==
  IF n = 0 THEN 0
  ELSE (IF a % 2 = 1 /\ b % 2 = 1 THEN 1 ELSE 0)
       + 2 * BitAnd(a \div 2, b \div 2, n - 1)

CONTINUATION_MASK == 192

CONTINUATION_TAG == 128

\* Variant: the mask also covers bit 5, so only 80..9F pass.
is_continuation_byte_wide_mask(b) == BitAnd(b, 224, 8) = CONTINUATION_TAG

is_continuation_byte(b) == BitAnd(b, CONTINUATION_MASK, 8) = CONTINUATION_TAG

\* Variant: ED is folded into the range E1..EF, surrogates pass.
valid_three_bytes_sequence_prefix_surrogates(first, second) ==
  \/ first = 224 /\ second \in 160..191
  \/ first \in 225..239 /\ second \in 128..191

\* Variant: E0 is folded into the range E0..EC, overlong forms pass.
valid_three_bytes_sequence_prefix_overlong(first, second) ==
  \/ first \in 224..236 /\ second \in 128..191
  \/ first = 237 /\ second \in 128..159
  \/ first \in 238..239 /\ second \in 128..191

valid_three_bytes_sequence_prefix(first, second) ==
  \/ first = 224 /\ second \in 160..191
  \/ first \in 225..236 /\ second \in 128..191
  \/ first = 237 /\ second \in 128..159
  \/ first \in 238..239 /\ second \in 128..191

\* Variant: F4 is folded into the range F1..F4, values above U+10FFFF pass.
valid_four_bytes_sequence_prefix_no_cap(first, second) ==
  \/ first = 240 /\ second \in 144..191
  \/ first \in 241..244 /\ second \in 128..191

\* Variant: F0 is folded into the range F0..F3, overlong forms pass.
valid_four_bytes_sequence_prefix_overlong(first, second) ==
  \/ first \in 240..243 /\ second \in 128..191
  \/ first = 244 /\ second \in 128..143

valid_four_bytes_sequence_prefix(first, second) ==
  \/ first = 240 /\ second \in 144..191
  \/ first \in 241..243 /\ second \in 128..191
  \/ first = 244 /\ second \in 128..143

(* ------------------------------ slices --------------------------------- *)

\* input.get(i) is Some: position i (0-based) lies inside the slice.
has(input, i) == i < Len(input)

\* The byte input.get(i) yields.
get(input, i) == input[i + 1]

\* &input[n..]
slice_from(input, n) == SubSeq(input, n + 1, Len(input))

\* &input[..n]
slice_to(input, n) == SubSeq(input, 1, n)

(* ----------------------------- decode_step ------------------------------ *)

\* An IncompleteSequence { len, first, second, third }.
IncompleteSequence(len, first, second, third) ==
  [len |-> len, first |-> first, second |-> second, third |-> third]

\* Placeholder where a result carries no IncompleteSequence.
NoSeq == IncompleteSequence(0, 0, 0, 0)

\* valid_prefix!() : the text before the sequence under examination.
valid_prefix(input, position) == slice_to(input, position)

\* Variant: len counts the bytes behind the leading byte only.
decode_step_next_len_from_zero(input, position, current_sequence_len, first, second, third) ==
  [text      |-> slice_to(input, position),
   status    |-> "Incomplete",
   remaining |-> << >>,
   seq       |-> IncompleteSequence(current_sequence_len - 1, first, second, third)]

\* The None arm of next!() in decode_step: the slice ended inside a sequence.
decode_step_next(input, position, current_sequence_len, first, second, third) ==
  [text      |-> valid_prefix(input, position),
   status    |-> "Incomplete",
   remaining |-> << >>,
   seq       |-> IncompleteSequence(current_sequence_len, first, second, third)]

\* Variant: the remainder starts at the leading byte, whatever was matched.
decode_step_check_at_lead(input, position, current_sequence_len) ==
  [text      |-> slice_to(input, position),
   status    |-> "Error",
   remaining |-> slice_from(input, position),
   seq       |-> NoSeq]

\* Variant: the failing byte itself is consumed by the error.
decode_step_check_past_failing(input, position, current_sequence_len) ==
  [text      |-> slice_to(input, position),
   status    |-> "Error",
   remaining |-> slice_from(input, position + current_sequence_len + 1),
   seq       |-> NoSeq]

\* Variant: the offset is counted from 0, so a width-0 byte is not consumed
\* and a failing continuation byte hands back the byte before it too.
decode_step_check_one_short(input, position, current_sequence_len) ==
  [text      |-> slice_to(input, position),
   status    |-> "Error",
   remaining |-> slice_from(input, position + current_sequence_len - 1),
   seq       |-> NoSeq]

\* The failing arm of check!() in decode_step.
decode_step_check(input, position, current_sequence_len) ==
  [text      |-> valid_prefix(input, position),
   status    |-> "Error",
   remaining |-> slice_from(input, position + current_sequence_len),
   seq       |-> NoSeq]

\* The end of input met on a code point boundary.
decode_step_ok(input) ==
  [text |-> input, status |-> "Ok", remaining |-> << >>, seq |-> NoSeq]

\* let valid = match width { 2 => .., 3 => .., _ => .. } in decode_step.
decode_step_valid(w, first, second) ==
  CASE w = 2 -> is_continuation_byte(second)
    [] w = 3 -> valid_three_bytes_sequence_prefix(first, second)
    [] OTHER -> valid_four_bytes_sequence_prefix(first, second)

\* The loop of decode_step from a given position; the result is the tuple
\* (&str, DecodeStepStatus) as a record.
RECURSIVE decode_step_loop(_, _)
decode_step_loop(input, position) ==
  IF ~has(input, position) THEN decode_step_ok(input)
  ELSE
    LET first == get(input, position) IN
    IF first < 128 THEN decode_step_loop(input, position + 1)
    ELSE
      LET w == UTF8_CHAR_WIDTH[first + 1] IN
      IF ~(w # 0) THEN decode_step_check(input, position, 1)
      ELSE IF ~has(input, position + 1)
      THEN decode_step_next(input, position, 1, first, 0, 0)
      ELSE
        LET second == get(input, position + 1) IN
        IF ~decode_step_valid(w, first, second)
        THEN decode_step_check(input, position, 1)
        ELSE IF w > 2
        THEN
          IF ~has(input, position + 2)
          THEN decode_step_next(input, position, 2, first, second, 0)
          ELSE
            LET third == get(input, position + 2) IN
            IF ~is_continuation_byte(third)
            THEN decode_step_check(input, position, 2)
            ELSE IF w > 3
            THEN
              IF ~has(input, position + 3)
              THEN decode_step_next(input, position, 3, first, second, third)
              ELSE
                LET fourth == get(input, position + 3) IN
                IF ~is_continuation_byte(fourth)
                THEN decode_step_check(input, position, 3)
                ELSE decode_step_loop(input, position + w)
            ELSE decode_step_loop(input, position + w)
        ELSE decode_step_loop(input, position + w)

\* pub fn decode_step(input: &[u8]) -> (&str, DecodeStepStatus)
decode_step(input) == decode_step_loop(input, 0)

(* ---------------------- IncompleteSequence::complete ------------------- *)

\* Variant: self.len is handed back as it came in.
complete_next_keep_len(self, position) ==
  [status     |-> "StillIncomplete",
   code_point |-> << >>,
   remaining  |-> << >>,
   seq        |-> self]

\* Variant: new_len counts one byte too many.
complete_next_len_plus_one(self, position) ==
  [status     |-> "StillIncomplete",
   code_point |-> << >>,
   remaining  |-> << >>,
   seq        |-> [self EXCEPT !.len = self.len + position + 1]]

\* Variant: new_len forgets the bytes captured before this call.
complete_next_reset(self, position) ==
  [status     |-> "StillIncomplete",
   code_point |-> << >>,
   remaining  |-> << >>,
   seq        |-> [self EXCEPT !.len = position]]

\* The None arm of next!() in complete: self.len grows by the bytes taken
\* from the new slice and the sequence is handed back.
complete_next(self, position) ==
  [status     |-> "StillIncomplete",
   code_point |-> << >>,
   remaining  |-> << >>,
   seq        |-> [self EXCEPT !.len = self.len + position]]

\* Variant: the whole new slice is handed back, accepted bytes included.
complete_check_replay(input, position) ==
  [status     |-> "Error",
   code_point |-> << >>,
   remaining  |-> input,
   seq        |-> NoSeq]

\* Variant: the failing byte is consumed by the error.
complete_check_past_failing(input, position) ==
  [status     |-> "Error",
   code_point |-> << >>,
   remaining  |-> slice_from(input, position + 1),
   seq        |-> NoSeq]

\* The failing arm of check!() in complete.
complete_check(input, position) ==
  [status     |-> "Error",
   code_point |-> << >>,
   remaining  |-> slice_from(input, position),
   seq        |-> NoSeq]

\* Variant: the fourth byte is left out of the StrChar.
complete_ok_no_fourth(self, fourth, input, position) ==
  [status     |-> "Ok",
   code_point |-> << self.first, self.second, self.third, 0 >>,
   remaining  |-> slice_from(input, position),
   seq        |-> NoSeq]

\* Variant: the remainder skips one byte behind the code point.
complete_ok_skip(self, fourth, input, position) ==
  [status     |-> "Ok",
   code_point |-> << self.first, self.second, self.third, fourth >>,
   remaining  |-> slice_from(input, position + 1),
   seq        |-> NoSeq]

\* StrChar { bytes: [first, second, third, fourth] } and CompleteResult::Ok.
complete_ok(self, fourth, input, position) ==
  [status     |-> "Ok",
   code_point |-> << self.first, self.second, self.third, fourth >>,
   remaining  |-> slice_from(input, position),
   seq        |-> NoSeq]

\* let valid = match width { 2 => .., 3 => .., _ => .. } in complete.
complete_valid(w, first, second) ==
  CASE w = 2 -> is_continuation_byte(second)
    [] w = 3 -> valid_three_bytes_sequence_prefix(first, second)
    [] OTHER -> valid_four_bytes_sequence_prefix(first, second)

\* Variant: position is not advanced past the fourth byte.
complete_fourth_no_advance(self, input, position, w) ==
  IF w > 3
  THEN
    IF ~has(input, position) THEN complete_next(self, position)
    ELSE
      LET fourth == get(input, position) IN
      IF ~is_continuation_byte(fourth) THEN complete_check(input, position)
      ELSE complete_ok(self, fourth, input, position)
  ELSE complete_ok(self, 0, input, position)

\* Variant: the fourth byte is only taken when another byte follows it.
complete_fourth_reads_ahead(self, input, position, w) ==
  IF w > 3
  THEN
    IF ~has(input, position + 1) THEN complete_next(self, position)
    ELSE
      LET fourth == get(input, position) IN
      IF ~is_continuation_byte(fourth) THEN complete_check(input, position)
      ELSE complete_ok(self, fourth, input, position + 1)
  ELSE complete_ok(self, 0, input, position)

\* if width > 3 { fourth = next!(); check!(..); position += 1 } and the result.
complete_fourth(self, input, position, w) ==
  IF w > 3
  THEN
    IF ~has(input, position) THEN complete_next(self, position)
    ELSE
      LET fourth == get(input, position) IN
      IF ~is_continuation_byte(fourth) THEN complete_check(input, position)
      ELSE complete_ok(self, fourth, input, position + 1)
  ELSE complete_ok(self, 0, input, position)

\* Variant: the third byte is pulled again although it was captured.
complete_third_repull(self, input, position, w) ==
  IF w > 2
  THEN
    IF ~has(input, position) THEN complete_next(self, position)
    ELSE
      LET self3 == [self EXCEPT !.third = get(input, position)] IN
      IF ~is_continuation_byte(self3.third)
      THEN complete_check(input, position)
      ELSE complete_fourth(self3, input, position + 1, w)
  ELSE complete_ok(self, 0, input, position)

\* if width > 2 { if self.len < 3 { self.third = next!(); .. } .. }
complete_third(self, input, position, w) ==
  IF w > 2
  THEN
    IF self.len < 3
    THEN
      IF ~has(input, position) THEN complete_next(self, position)
      ELSE
        LET self3 == [self EXCEPT !.third = get(input, position)] IN
        IF ~is_continuation_byte(self3.third)
        THEN complete_check(input, position)
        ELSE complete_fourth(self3, input, position + 1, w)
    ELSE complete_fourth(self, input, position, w)
  ELSE complete_ok(self, 0, input, position)

\* pub fn complete(mut self, input: &[u8]) -> CompleteResult
complete(self, input) ==
  LET w == width(self.first) IN
  IF self.len < 2
  THEN
    IF ~has(input, 0) THEN complete_next(self, 0)
    ELSE
      LET self2 == [self EXCEPT !.second = get(input, 0)] IN
      IF ~complete_valid(w, self2.first, self2.second)
      THEN complete_check(input, 0)
      ELSE complete_third(self2, input, 1, w)
  ELSE complete_third(self, input, 0, w)

\* debug_assert!(0 < self.len && self.len < width && width <= 4)
complete_debug_assert(self) ==
  0 < self.len /\ self.len < width(self.first) /\ width(self.first) <= 4

\* debug_assert!(new_len < 4), new_len being the len of the sequence
\* StillIncomplete hands back.
complete_next_debug_assert(new_len) == new_len < 4

\* debug_assert!(width == 4) in the last arm of the match on width.
complete_valid_debug_assert(w) == w \in {2, 3} \/ w = 4

(* ------------------------------- StrChar -------------------------------- *)

\* impl Deref for StrChar: the first width(bytes[0]) bytes, viewed as text.
deref(bytes) == slice_to(bytes, width(bytes[1]))

\* The scalar value str::chars() yields for the first character of a text:
\* the payload bits of the leading byte followed by six bits per
\* continuation byte.
first_char(text) ==
  LET b1 == text[1] IN
  CASE b1 < 128 -> b1
    [] b1 \in 128..223 -> (b1 % 32) * 64 + (text[2] % 64)
    [] b1 \in 224..239 -> (b1 % 16) * 4096 + (text[2] % 64) * 64 + (text[3] % 64)
    [] OTHER -> (b1 % 8) * 262144 + (text[2] % 64) * 4096
                + (text[3] % 64) * 64 + (text[4] % 64)

\* pub fn to_char(&self) -> char
to_char(bytes) == first_char(deref(bytes))

(* ------------------------------ the caller ------------------------------ *)

VARIABLES
  op,          \* the last call: "none", "decode_step" or "complete"
  input,       \* the slice handed to the last call
  text,        \* the &str decode_step returned
  status,      \* the variant of the DecodeStepStatus / CompleteResult
  remaining,   \* remaining_input_after_error or remaining_input
  seq,         \* the IncompleteSequence returned, NoSeq if none
  code_point,  \* the bytes of the StrChar returned, << >> if none
  self,        \* the IncompleteSequence the last complete consumed
  unit,        \* history: the bytes handed in since the pending sequence began
  fed,         \* history: the number of bytes handed in so far
  first_byte,  \* a byte handed to width and, as first, to the prefix validators
  second_byte, \* a byte handed to the validators as second / b
  verdict,     \* what width and the validators returned for them
  stream,      \* the byte stream a lossy decoder is given, chunk by chunk
  out,         \* the text the lossy decoder has produced
  calls,       \* history: calls of decode_step and complete made on the stream
  chunks       \* history: chunks of the stream handed in

\* The caller's view of the decoder.
driver == << op, input, text, status, remaining, seq, code_point, self, unit, fed >>

\* Inputs and results of the byte classifiers.
probe == << first_byte, second_byte, verdict >>

\* The lossy decoder's stream and output.
session == << stream, out, calls, chunks >>

vars == << driver, probe, session >>

\* Nothing classified yet.
NoVerdict == [width |-> 0, continuation |-> FALSE, three |-> FALSE,
              four |-> FALSE, done |-> FALSE]

ProbeInit == first_byte = 0 /\ second_byte = 0 /\ verdict = NoVerdict

SessionInit == stream = << >> /\ out = << >> /\ calls = 0 /\ chunks = 0

\* Before the first call.
DriverInit ==
  /\ op = "none"
  /\ input = << >>
  /\ text = << >>
  /\ status = "None"
  /\ remaining = << >>
  /\ seq = NoSeq
  /\ code_point = << >>
  /\ self = NoSeq
  /\ unit = << >>
  /\ fed = 0

Init == DriverInit /\ ProbeInit /\ SessionInit

\* The state after a call of decode_step on the slice s.
Stepped(s) ==
  LET r == decode_step(s) IN
  /\ op' = "decode_step"
  /\ input' = s
  /\ text' = r.text
  /\ status' = r.status
  /\ remaining' = r.remaining
  /\ seq' = r.seq
  /\ code_point' = << >>
  /\ self' = NoSeq
  /\ unit' = IF r.status = "Incomplete" THEN slice_from(s, Len(r.text)) ELSE << >>

\* The caller hands a fresh chunk to decode_step: nothing is pending and
\* nothing of an earlier chunk is left to scan.
DecodeChunk ==
  /\ op = "none" \/ (op = "decode_step" /\ status = "Ok")
  /\ \E chunk \in Slices(MaxStream - fed) :
       /\ Stepped(chunk)
       /\ fed' = fed + Len(chunk)
  /\ UNCHANGED << probe, session >>

\* The caller resumes decode_step on the remainder an Error reported, or on
\* the remainder left behind a completed code point.
DecodeRemaining ==
  /\ status = "Error" \/ (op = "complete" /\ status = "Ok")
  /\ Stepped(remaining)
  /\ UNCHANGED << fed, probe, session >>

\* The state after a call of complete on the pending sequence and a chunk.
Completed(chunk) ==
  LET r == complete(seq, chunk) IN
  /\ op' = "complete"
  /\ input' = chunk
  /\ text' = << >>
  /\ status' = r.status
  /\ remaining' = r.remaining
  /\ seq' = r.seq
  /\ code_point' = r.code_point
  /\ self' = seq
  /\ unit' = unit \o chunk
  /\ fed' = fed + Len(chunk)

\* The caller hands the next chunk to the pending IncompleteSequence.
CompleteChunk ==
  /\ status \in {"Incomplete", "StillIncomplete"}
  /\ \E chunk \in Slices(MaxStream - fed) : Completed(chunk)
  /\ UNCHANGED << probe, session >>

Next == DecodeChunk \/ DecodeRemaining \/ CompleteChunk

Spec == Init /\ [][Next]_vars

TypeOK ==
  /\ op \in {"none", "decode_step", "complete", "end"}
  /\ status \in {"None", "Ok", "Error", "Incomplete", "StillIncomplete"}
  /\ fed \in 0..MaxStream

(* -------------------------- the byte classifiers ------------------------ *)

\* The values of a u8.
Byte == 0..255

\* Any byte, or pair of bytes, may be handed to width and the validators.
InitPure ==
  /\ DriverInit
  /\ SessionInit
  /\ first_byte \in Byte
  /\ second_byte \in Byte
  /\ verdict = NoVerdict

\* width, is_continuation_byte and the two prefix validators are applied.
Classify ==
  /\ ~verdict.done
  /\ verdict' = [width        |-> width(first_byte),
                 continuation |-> is_continuation_byte(second_byte),
                 three        |-> valid_three_bytes_sequence_prefix(first_byte, second_byte),
                 four         |-> valid_four_bytes_sequence_prefix(first_byte, second_byte),
                 done         |-> TRUE]
  /\ UNCHANGED << driver, session, first_byte, second_byte >>

NextPure == Classify

SpecPure == InitPure /\ [][NextPure]_vars

(* ---------------------------- lossy decoding ---------------------------- *)

\* pub const REPLACEMENT_CHARACTER: "\u{FFFD}", as UTF-8: EF BF BD.
REPLACEMENT_CHARACTER == << 239, 191, 189 >>

\* The bytes of a stream: ASCII, two continuation bytes, a 3-byte lead that
\* takes only the first of them as second byte, a 4-byte lead that takes
\* only the other, and an invalid byte.
StreamBytes == {97, 128, 160, 237, 240, 255}

\* The stream is any byte string; nothing is decoded yet.
InitStream ==
  /\ DriverInit
  /\ ProbeInit
  /\ stream \in UNION {[1..k -> StreamBytes] : k \in 0..MaxStream}
  /\ out = << >>
  /\ calls = 0
  /\ chunks = 0

\* The bytes of the stream not yet handed in.
Left == Len(stream) - fed

\* The sizes the next chunk may have; the last chunk takes what is left.
ChunkSizes == IF chunks + 1 >= MaxChunks THEN {Left} ELSE 0..Left

\* The next chunk of k bytes.
NextChunk(k) == SubSeq(stream, fed + 1, fed + k)

\* What a lossy decoder emits for a result of decode_step: the valid text,
\* and one replacement character for an Error.
lossy_step(r) ==
  r.text \o (IF r.status = "Error" THEN REPLACEMENT_CHARACTER ELSE << >>)

\* What it emits for a result of complete: the code point, or one
\* replacement character for an Error.
lossy_complete(r) ==
  CASE r.status = "Ok" -> deref(r.code_point)
    [] r.status = "Error" -> REPLACEMENT_CHARACTER
    [] OTHER -> << >>

\* The next chunk goes to decode_step.
FeedDecode ==
  /\ op = "none" \/ (op = "decode_step" /\ status = "Ok")
  /\ chunks < MaxChunks
  /\ \E k \in ChunkSizes :
       /\ Stepped(NextChunk(k))
       /\ fed' = fed + k
       /\ out' = out \o lossy_step(decode_step(NextChunk(k)))
  /\ calls' = calls + 1
  /\ chunks' = chunks + 1
  /\ UNCHANGED << probe, stream >>

\* decode_step is called again on the remainder behind an Error or behind a
\* completed code point.
ResumeDecode ==
  /\ status = "Error" \/ (op = "complete" /\ status = "Ok")
  /\ Stepped(remaining)
  /\ out' = out \o lossy_step(decode_step(remaining))
  /\ calls' = calls + 1
  /\ UNCHANGED << fed, probe, stream, chunks >>

\* The next chunk goes to the pending IncompleteSequence.
FeedComplete ==
  /\ status \in {"Incomplete", "StillIncomplete"}
  /\ chunks < MaxChunks
  /\ \E k \in ChunkSizes :
       /\ Completed(NextChunk(k))
       /\ out' = out \o lossy_complete(complete(seq, NextChunk(k)))
  /\ calls' = calls + 1
  /\ chunks' = chunks + 1
  /\ UNCHANGED << probe, stream >>

\* The stream has ended: a sequence still incomplete is a decoding error.
EndOfInput ==
  /\ Left = 0
  /\ \/ op = "none"
     \/ op = "decode_step" /\ status = "Ok"
     \/ status \in {"Incomplete", "StillIncomplete"}
  /\ out' = out \o (IF status \in {"Incomplete", "StillIncomplete"}
                     THEN REPLACEMENT_CHARACTER ELSE << >>)
  /\ op' = "end"
  /\ input' = << >>
  /\ text' = << >>
  /\ status' = "None"
  /\ remaining' = << >>
  /\ seq' = NoSeq
  /\ code_point' = << >>
  /\ self' = NoSeq
  /\ unit' = << >>
  /\ UNCHANGED << fed, probe, stream, calls, chunks >>

NextStream == FeedDecode \/ ResumeDecode \/ FeedComplete \/ EndOfInput

SpecStream == InitStream /\ [][NextStream]_vars

\* The output of the lossy decoder when the whole of s is one chunk.
RECURSIVE lossy_whole(_)
lossy_whole(s) ==
  LET r == decode_step(s) IN
  CASE r.status = "Ok" -> r.text
    [] r.status = "Incomplete" -> r.text \o REPLACEMENT_CHARACTER
    [] OTHER -> r.text \o REPLACEMENT_CHARACTER \o lossy_whole(r.remaining)

(* ------------------- the RFC 3629 syntax, for reference ----------------- *)

UTF8_tail(b) == b \in 128..191

UTF8_1(u) == Len(u) = 1 /\ u[1] \in 0..127

UTF8_2(u) == Len(u) = 2 /\ u[1] \in 194..223 /\ UTF8_tail(u[2])

\* The first two bytes of a UTF8-3.
UTF8_3_head(b1, b2) ==
  \/ b1 = 224 /\ b2 \in 160..191
  \/ b1 \in 225..236 /\ UTF8_tail(b2)
  \/ b1 = 237 /\ b2 \in 128..159
  \/ b1 \in 238..239 /\ UTF8_tail(b2)

UTF8_3(u) == Len(u) = 3 /\ UTF8_3_head(u[1], u[2]) /\ UTF8_tail(u[3])

\* The first two bytes of a UTF8-4.
UTF8_4_head(b1, b2) ==
  \/ b1 = 240 /\ b2 \in 144..191
  \/ b1 \in 241..243 /\ UTF8_tail(b2)
  \/ b1 = 244 /\ b2 \in 128..143

UTF8_4(u) ==
  /\ Len(u) = 4
  /\ UTF8_4_head(u[1], u[2])
  /\ UTF8_tail(u[3])
  /\ UTF8_tail(u[4])

UTF8_char(u) == UTF8_1(u) \/ UTF8_2(u) \/ UTF8_3(u) \/ UTF8_4(u)

\* UTF8-octets = *( UTF8-char )
RECURSIVE WellFormed(_)
WellFormed(s) ==
  \/ s = << >>
  \/ \E k \in 1..(IF Len(s) < 4 THEN Len(s) ELSE 4) :
       UTF8_char(SubSeq(s, 1, k)) /\ WellFormed(SubSeq(s, k + 1, Len(s)))

\* u is a non-empty proper prefix of some UTF8-char: valid so far, not done.
Partial(u) ==
  \/ Len(u) = 1 /\ (u[1] \in 194..223 \/ u[1] \in 224..239 \/ u[1] \in 240..244)
  \/ Len(u) = 2 /\ (UTF8_3_head(u[1], u[2]) \/ UTF8_4_head(u[1], u[2]))
  \/ Len(u) = 3 /\ UTF8_4_head(u[1], u[2]) /\ UTF8_tail(u[3])

\* u can still be, or already is, a UTF8-char.
Viable(u) == UTF8_char(u) \/ Partial(u)

\* The bytes an IncompleteSequence has captured, in order.
Captured(s) == SubSeq(<< s.first, s.second, s.third >>, 1, s.len)

\* The longest well-formed prefix of a slice.
LongestWellFormed(s) ==
  LET good == {k \in 0..Len(s) : WellFormed(slice_to(s, k))}
  IN  slice_to(s, CHOOSE k \in good : \A j \in good : j <= k)

(* ------------------------------ properties ------------------------------ *)

\* C1: decode_step of a well-formed UTF-8 byte sequence (the empty one
\* included) returns the whole input as validated prefix with status Ok.
C1_WellFormedIsOk ==
  (op = "decode_step" /\ WellFormed(input))
    => (text = input /\ status = "Ok")

C1_Witness ==
  /\ op = "decode_step"
  /\ input = << 97, 237, 128, 160 >>
  /\ WellFormed(input)
  /\ text = input
  /\ status = "Ok"

\* A non-ASCII byte of width class 0: 80..C1 or F5..FF.
InvalidLead(b) == b \in 128..193 \/ b \in 245..255

\* C2 as stated: a width-0 byte met on a sequence boundary gives Error, the
\* validated prefix is the bytes before it and the remainder starts AT it.
C2_Original ==
  op = "decode_step" =>
    \A k \in 0..(Len(input) - 1) :
      (InvalidLead(get(input, k)) /\ WellFormed(slice_to(input, k)))
        => /\ status = "Error"
           /\ text = slice_to(input, k)
           /\ remaining = slice_from(input, k)

\* C2 amended: a width-0 byte met on a sequence boundary gives Error, the
\* validated prefix is the bytes before it and the remainder starts just
\* AFTER it: the invalid leading byte is consumed by the error.
C2_InvalidLeadConsumed ==
  op = "decode_step" =>
    \A k \in 0..(Len(input) - 1) :
      (InvalidLead(get(input, k)) /\ WellFormed(slice_to(input, k)))
        => /\ status = "Error"
           /\ text = slice_to(input, k)
           /\ remaining = slice_from(input, k + 1)

C2_Witness ==
  /\ op = "decode_step"
  /\ input = << 97, 255, 97 >>
  /\ status = "Error"
  /\ text = << 97 >>
  /\ remaining = << 97 >>

\* C3: after a valid leading byte of width 2..4, a present second, third or
\* fourth byte that fails its validator gives Error; the validated prefix is
\* the bytes before the leading byte and the remainder starts at the first
\* failing byte.
C3_ErrorAtFailingByte ==
  op = "decode_step" =>
    \A k \in 0..Len(input) : \A n \in 1..3 :
      ( /\ k + n < Len(input)
        /\ Partial(SubSeq(input, k + 1, k + n))
        /\ ~Viable(SubSeq(input, k + 1, k + n + 1))
        /\ WellFormed(slice_to(input, k)) )
        => /\ status = "Error"
           /\ text = slice_to(input, k)
           /\ remaining = slice_from(input, k + n)

C3_Witness ==
  /\ op = "decode_step"
  /\ input = << 237, 160, 128 >>
  /\ status = "Error"
  /\ text = << >>
  /\ remaining = << 160, 128 >>

\* C4: a single well-formed sequence of 2..4 bytes handed in as two or more
\* chunks (decode_step on the first, complete on each following one) ends in
\* CompleteResult::Ok; the code point has the bytes and the scalar value of
\* the sequence decoded unsplit, and nothing remains.
C4_SplitSequenceResolves ==
  (op = "complete" /\ UTF8_char(unit))
    => /\ status = "Ok"
       /\ remaining = << >>
       /\ deref(code_point) = unit
       /\ decode_step(unit).status = "Ok"
       /\ deref(code_point) = decode_step(unit).text
       /\ to_char(code_point) = first_char(decode_step(unit).text)

\* F0 | 90 | 80 80: three chunks, the middle call still incomplete.
C4_Witness ==
  /\ op = "complete"
  /\ unit = << 240, 144, 128, 128 >>
  /\ input = << 128, 128 >>
  /\ self = IncompleteSequence(2, 240, 144, 0)
  /\ status = "Ok"
  /\ code_point = << 240, 144, 128, 128 >>
  /\ to_char(code_point) = 65536

\* C5: complete composes over chunking: when p.complete(a) is
\* StillIncomplete(p'), p'.complete(b) is the same result (variant and
\* payload) as p.complete(a ++ b), for every slice b the caller can hand in
\* next.
C5_CompleteComposes ==
  (op = "complete" /\ status = "StillIncomplete")
    => \A b \in Slices(MaxStream - fed) :
         complete(seq, b) = complete(self, input \o b)

C5_Witness ==
  /\ op = "complete"
  /\ status = "StillIncomplete"
  /\ self = IncompleteSequence(1, 240, 0, 0)
  /\ input = << 144, 128 >>
  /\ seq = IncompleteSequence(3, 240, 144, 128)
  /\ complete(seq, << 128, 97 >>).status = "Ok"
  /\ complete(seq, << 255 >>).status = "Error"

\* The bytes of the input between the validated prefix and the remainder.
Charged == SubSeq(input, Len(text) + 1, Len(input) - Len(remaining))

\* C6: every byte handed in is accounted for once and in order.  After
\* decode_step: prefix ++ bytes charged to the error (or captured in the
\* incomplete sequence) ++ remainder is the input.  After complete: the
\* captured bytes followed by the new slice are the code point's bytes ++
\* remainder (Ok), the captured bytes of the updated sequence
\* (StillIncomplete), or end with the remainder, which lies inside the new
\* slice (Error); the same holds of all bytes handed in since the sequence
\* began.
C6_BytesAccounted ==
  /\ op = "decode_step" =>
       /\ Len(text) + Len(remaining) <= Len(input)
       /\ text \o Charged \o remaining = input
       /\ status = "Ok" => text = input
       /\ status = "Incomplete" => (text \o Captured(seq) = input /\ Captured(seq) = unit)
  /\ op = "complete" =>
       /\ status = "Ok" =>
            /\ deref(code_point) \o remaining = Captured(self) \o input
            /\ deref(code_point) \o remaining = unit
       /\ status = "StillIncomplete" =>
            /\ Captured(seq) = Captured(self) \o input
            /\ Captured(seq) = unit
       /\ status = "Error" =>
            /\ Len(remaining) <= Len(input)
            /\ remaining = slice_from(input, Len(input) - Len(remaining))
            /\ slice_to(unit, Len(unit) - Len(remaining)) \o remaining
                 = Captured(self) \o input

\* ED | 80 A0 61: the code point takes two bytes of the chunk, one remains.
C6_Witness ==
  /\ op = "complete"
  /\ self = IncompleteSequence(1, 237, 0, 0)
  /\ input = << 128, 160, 97 >>
  /\ status = "Ok"
  /\ deref(code_point) = << 237, 128, 160 >>
  /\ remaining = << 97 >>

\* C7: the text decode_step returns is the longest well-formed prefix of
\* the input: it is well-formed, Ok means the whole input is well-formed,
\* and after Error or Incomplete no longer prefix is well-formed.
C7_LongestWellFormedPrefix ==
  op = "decode_step" =>
    /\ WellFormed(text)
    /\ text = LongestWellFormed(input)
    /\ status = "Ok" => WellFormed(input)
    /\ status \in {"Error", "Incomplete"} =>
         \A k \in (Len(text) + 1)..Len(input) : ~WellFormed(slice_to(input, k))

C7_Witness ==
  /\ op = "decode_step"
  /\ input = << 195, 160, 244, 144 >>
  /\ status = "Error"
  /\ text = << 195, 160 >>
  /\ ~WellFormed(input)

\* A leading byte that can only begin an overlong form (C0, C1) or a value
\* above U+10FFFF (F5..FF).
BadLead(b) == b \in 192..193 \/ b \in 245..255

\* A leading byte and a continuation byte that begin an overlong form
\* (E0 80..9F, F0 80..8F), a surrogate (ED A0..BF) or a value above
\* U+10FFFF (F4 90..BF).
BadPair(first, second) ==
  \/ first = 224 /\ second \in 128..159
  \/ first = 240 /\ second \in 128..143
  \/ first = 237 /\ second \in 160..191
  \/ first = 244 /\ second \in 144..191

\* No such byte or pair occurs in s.
NoMalformed(s) ==
  \A i \in 1..Len(s) :
    /\ ~BadLead(s[i])
    /\ i < Len(s) => ~BadPair(s[i], s[i + 1])

\* C8: no malformed unit is accepted.  An overlong form, a surrogate or a
\* value above U+10FFFF that begins on a sequence boundary makes decode_step
\* return Error; when its leading byte was captured and the next chunk
\* brings the second byte, complete returns Error; no such byte or pair is
\* ever inside a validated prefix or a resolved code point.
C8_MalformedRejected ==
  /\ op = "decode_step" =>
       /\ NoMalformed(text)
       /\ \A k \in 0..(Len(input) - 1) :
            ( /\ \/ BadLead(get(input, k))
                 \/ has(input, k + 1) /\ BadPair(get(input, k), get(input, k + 1))
              /\ WellFormed(slice_to(input, k)) )
              => (status = "Error" /\ text = slice_to(input, k))
  /\ op = "complete" =>
       /\ (self.len = 1 /\ has(input, 0) /\ BadPair(self.first, get(input, 0)))
            => status = "Error"
       /\ status = "Ok" => NoMalformed(deref(code_point))

\* ED | A0 80: the surrogate's second byte arrives in the next chunk.
C8_Witness ==
  /\ op = "complete"
  /\ self = IncompleteSequence(1, 237, 0, 0)
  /\ input = << 160, 128 >>
  /\ status = "Error"

\* C9: when the slice ends inside a sequence of width 2..4 whose bytes so
\* far are valid, decode_step returns Incomplete; len is the number of bytes
\* of the sequence present (1..3), first/second/third are those bytes in
\* order with unused slots 0, and the validated prefix is the bytes before
\* the sequence.
C9_IncompleteCaptures ==
  op = "decode_step" =>
    \A k \in 0..(Len(input) - 1) :
      LET u == slice_from(input, k) IN
      (Partial(u) /\ WellFormed(slice_to(input, k)))
        => /\ status = "Incomplete"
           /\ text = slice_to(input, k)
           /\ seq = IncompleteSequence(Len(u), u[1],
                                       IF Len(u) >= 2 THEN u[2] ELSE 0,
                                       IF Len(u) >= 3 THEN u[3] ELSE 0)

C9_Witness ==
  /\ op = "decode_step"
  /\ input = << 97, 237, 128 >>
  /\ status = "Incomplete"
  /\ text = << 97 >>
  /\ seq = IncompleteSequence(2, 237, 128, 0)

\* C10: when a byte complete pulls from the new slice fails its validator,
\* complete returns Error and the remainder is the suffix of the new slice
\* that starts at the failing byte: the bytes accepted before it are
\* consumed and no captured byte is replayed.
C10_CompleteErrorAtFailingByte ==
  op = "complete" =>
    /\ \A n \in 0..(Len(input) - 1) :
         ( /\ Partial(Captured(self) \o slice_to(input, n))
           /\ ~Viable(Captured(self) \o slice_to(input, n + 1)) )
           => (status = "Error" /\ remaining = slice_from(input, n))
    /\ status = "Error" =>
         /\ remaining # << >>
         /\ Len(remaining) <= Len(input)
         /\ remaining = slice_from(input, Len(input) - Len(remaining))

\* F0 | 90 FF 61: 90 is accepted and consumed, FF fails.
C10_Witness ==
  /\ op = "complete"
  /\ self = IncompleteSequence(1, 240, 0, 0)
  /\ input = << 144, 255, 97 >>
  /\ status = "Error"
  /\ remaining = << 255, 97 >>

\* C11: when the new slice holds all missing bytes and they are valid,
\* complete consumes exactly width(first) - len bytes from its front and
\* returns Ok; the code point's bytes are the captured bytes followed by the
\* consumed ones and the remainder is the slice without them.
C11_CompleteOkConsumesMissing ==
  op = "complete" =>
    LET n == width(self.first) - self.len IN
    /\ (n <= Len(input) /\ UTF8_char(Captured(self) \o slice_to(input, n)))
         => /\ status = "Ok"
            /\ deref(code_point) = Captured(self) \o slice_to(input, n)
            /\ remaining = slice_from(input, n)
    /\ status = "Ok" => (n >= 1 /\ Len(input) - Len(remaining) = n)

\* E0 A0 | 80 61: one byte was missing, one byte of the chunk remains.
C11_Witness ==
  /\ op = "complete"
  /\ self = IncompleteSequence(2, 224, 160, 0)
  /\ input = << 128, 97 >>
  /\ status = "Ok"
  /\ deref(code_point) = << 224, 160, 128 >>
  /\ remaining = << 97 >>

\* C12: every IncompleteSequence decode_step or complete hands out has
\* 0 < len < width(first) <= 4 and its captured bytes are a valid proper
\* prefix of a well-formed sequence; so the debug assertions of complete
\* hold at every call.
C12_SequenceInvariant ==
  /\ status \in {"Incomplete", "StillIncomplete"} =>
       /\ 0 < seq.len /\ seq.len < width(seq.first) /\ width(seq.first) <= 4
       /\ Partial(Captured(seq))
  /\ status \notin {"Incomplete", "StillIncomplete"} => seq = NoSeq
  /\ op = "complete" =>
       /\ complete_debug_assert(self)
       /\ complete_valid_debug_assert(width(self.first))
       /\ Partial(Captured(self))
       /\ status = "StillIncomplete" => complete_next_debug_assert(seq.len)

\* F4 80 | 80: three of four bytes captured.
C12_Witness ==
  /\ op = "complete"
  /\ self = IncompleteSequence(2, 244, 128, 0)
  /\ input = << 128 >>
  /\ status = "StillIncomplete"
  /\ seq = IncompleteSequence(3, 244, 128, 128)

\* The Unicode scalar values: 0..10FFFF without the surrogates D800..DFFF.
ScalarValue(c) == c \in 0..55295 \/ c \in 57344..1114111

\* The number of bytes the shortest UTF-8 form of c takes.
ShortestWidth(c) ==
  IF c < 128 THEN 1 ELSE IF c < 2048 THEN 2 ELSE IF c < 65536 THEN 3 ELSE 4

\* C13: every StrChar complete returns in Ok holds, in its first
\* width(bytes[0]) bytes, one well-formed encoding of a scalar value (no
\* surrogate, not above U+10FFFF, not overlong); its text view is those
\* bytes, and to_char finds a first character in it and returns that scalar.
C13_StrCharIsScalar ==
  (op = "complete" /\ status = "Ok") =>
    /\ Len(code_point) = 4
    /\ width(code_point[1]) \in 1..4
    /\ Len(deref(code_point)) = width(code_point[1])
    /\ UTF8_char(deref(code_point))
    /\ ScalarValue(to_char(code_point))
    /\ ShortestWidth(to_char(code_point)) = Len(deref(code_point))

\* ED 90 80 is U+D400, the 3-byte lead that borders the surrogates.
C13_Witness ==
  /\ op = "complete"
  /\ status = "Ok"
  /\ code_point = << 237, 144, 128, 0 >>
  /\ deref(code_point) = << 237, 144, 128 >>
  /\ to_char(code_point) = 54272

\* C14: complete returns StillIncomplete only for an input shorter than
\* three bytes; an input of three bytes or more gives Ok or Error.
C14_StillIncompleteNeedsShortInput ==
  op = "complete" =>
    /\ status = "StillIncomplete" => Len(input) < 3
    /\ Len(input) >= 3 => status \in {"Ok", "Error"}

\* F0 | 90 80 80: three bytes were missing and the chunk brings them.
C14_Witness ==
  /\ op = "complete"
  /\ self = IncompleteSequence(1, 240, 0, 0)
  /\ input = << 144, 128, 128 >>
  /\ status = "Ok"

\* C15: after Incomplete at most three more bytes decide the sequence: over
\* a chain of complete calls, once the bytes handed in since the sequence
\* began number width(first) or more the chain has returned Ok or Error;
\* StillIncomplete lasts only while fewer have been handed in.
C15_DecidedWithinWidth ==
  op = "complete" =>
    /\ width(self.first) - self.len <= 3
    /\ Len(unit) >= width(unit[1]) => status \in {"Ok", "Error"}
    /\ status = "StillIncomplete" => Len(unit) < width(unit[1])
    /\ status \in {"Ok", "Error"} => Len(input) - Len(remaining) <= 3

\* F0 90 80 | 80: the chunk that brings the total to width(first) decides.
C15_Witness ==
  /\ op = "complete"
  /\ self = IncompleteSequence(3, 240, 144, 128)
  /\ input = << 128 >>
  /\ unit = << 240, 144, 128, 128 >>
  /\ status = "Ok"

\* C16: when complete returns StillIncomplete the whole new slice was
\* consumed and valid: the first byte is kept, len grows by the length of
\* the slice, the captured bytes are the old ones followed by the slice, and
\* an empty slice hands the sequence back unchanged.
C16_StillIncompleteGrows ==
  (op = "complete" /\ status = "StillIncomplete") =>
    /\ seq.first = self.first
    /\ seq.len = self.len + Len(input)
    /\ Captured(seq) = Captured(self) \o input
    /\ Partial(Captured(seq))
    /\ input = << >> => seq = self

\* F0 | A0: one more byte captured, two still missing.
C16_Witness ==
  /\ op = "complete"
  /\ self = IncompleteSequence(1, 240, 0, 0)
  /\ input = << 160 >>
  /\ status = "StillIncomplete"
  /\ seq = IncompleteSequence(2, 240, 160, 0)

\* C17: the prefix validators accept exactly the RFC 3629 ranges for every
\* pair of bytes: valid_three_bytes_sequence_prefix is true iff (E0, A0..BF),
\* (E1..EC or EE..EF, 80..BF) or (ED, 80..9F); valid_four_bytes_sequence_prefix
\* is true iff (F0, 90..BF), (F1..F3, 80..BF) or (F4, 80..8F);
\* is_continuation_byte(b) is true iff b is in 80..BF.
C17_ValidatorsExact ==
  verdict.done =>
    /\ verdict.three <=> UTF8_3_head(first_byte, second_byte)
    /\ verdict.four <=> UTF8_4_head(first_byte, second_byte)
    /\ verdict.continuation <=> UTF8_tail(second_byte)

\* ED 9F: the last second byte below the surrogates.
C17_Witness ==
  /\ verdict.done
  /\ first_byte = 237
  /\ second_byte = 159
  /\ verdict.three
  /\ ~verdict.four
  /\ verdict.continuation

\* C18: the width classifier is defined for all 256 byte values and maps
\* bytes below 80 to 1, 80..C1 and F5..FF to 0, C2..DF to 2, E0..EF to 3 and
\* F0..F4 to 4.
C18_WidthClasses ==
  /\ Len(UTF8_CHAR_WIDTH) = 256
  /\ verdict.done =>
       verdict.width = CASE first_byte \in 0..127   -> 1
                         [] first_byte \in 128..193 -> 0
                         [] first_byte \in 194..223 -> 2
                         [] first_byte \in 224..239 -> 3
                         [] first_byte \in 240..244 -> 4
                         [] first_byte \in 245..255 -> 0

\* C1, the last of the bytes that only overlong forms would begin with.
C18_Witness ==
  /\ verdict.done
  /\ first_byte = 193
  /\ verdict.width = 0

\* C19: progress.  Every Error of decode_step leaves a remainder strictly
\* shorter than the input, having consumed 1 to 3 bytes behind the validated
\* prefix; every complete that returns Ok or Error retires the pending
\* sequence; so a decoder that resumes on each remainder makes at most as
\* many calls as bytes of the stream plus chunks handed in.
C19_Progress ==
  /\ (op = "decode_step" /\ status = "Error") =>
       /\ Len(remaining) < Len(input)
       /\ Len(input) - Len(text) - Len(remaining) \in 1..3
  /\ (op = "complete" /\ status \in {"Ok", "Error"}) =>
       (seq = NoSeq /\ Len(remaining) <= Len(input))
  /\ calls <= fed + chunks

\* ED | FF: Incomplete, Error without a byte consumed, Error, Ok: four calls
\* for two bytes in two chunks.
C19_Witness ==
  /\ stream = << 237, 255 >>
  /\ op = "decode_step"
  /\ input = << >>
  /\ status = "Ok"
  /\ fed = 2
  /\ chunks = 2
  /\ calls = 4

\* C20: chunking independence.  However the stream is cut into chunks (empty
\* ones included), the lossy decoder's output at the end of the stream is
\* the output it produces for the stream as a single chunk: the same text
\* with the same replacement characters at the same places.
C20_ChunkingIndependent ==
  op = "end" => out = lossy_whole(stream)

\* F0 | A0 | FF 61: the third byte fails in complete, FF fails in decode_step.
C20_Witness ==
  /\ op = "end"
  /\ stream = << 240, 160, 255, 97 >>
  /\ chunks = 3
  /\ calls = 5
  /\ out = REPLACEMENT_CHARACTER \o REPLACEMENT_CHARACTER \o << 97 >>

====
